---- MODULE Spec2Model ----
(***************************************************************************)
(* Event-log delivery of etovityusha/challenge: the delivery backends of   *)
(* event_logs/client.py, UseCase.execute of core/use_case.py (with the     *)
(* CreateUser business write), and the two Celery tasks of                 *)
(* event_logs/tasks.py (send_unsent_logs_to_clickhouse, delete_sent_logs). *)
(*                                                                         *)
(* Modelling decisions                                                     *)
(*  - The primary database runs in autocommit: the source opens no         *)
(*    transaction around UseCase.execute or around the tasks, so every     *)
(*    ORM statement (get_or_create, bulk_create, exists, the queryset      *)
(*    iteration, update, delete) is one atomic, immediately committed      *)
(*    step, and a row lock taken by select_for_update does not outlive     *)
(*    the statement that took it.                                          *)
(*  - The primary database is reliable: its statements do not fail.       *)
(*  - The analytics store (ClickHouse) is the environment: opening a       *)
(*    connection and every insert may succeed or fail, chosen with \E.     *)
(*  - Strings that the code transforms (class names, event_type) are       *)
(*    sequences of one-character strings.                                  *)
(*  - Time is counted in days.                                             *)
(*  - Spec interleaves callers, workers and retention; SpecSeq runs one   *)
(*    invocation at a time; SpecSnake applies _to_snake_case to a class   *)
(*    name drawn from Names.                                              *)
(***************************************************************************)
EXTENDS Integers, Sequences, FiniteSets, TLC

(* ------------------------------ bounds -------------------------------- *)
MaxTicks == 1          \* clock advances
MaxCalls == 2          \* invocations of UseCase.execute
MaxRuns == 2           \* invocations of send_unsent_logs_to_clickhouse
MaxRetention == 1      \* invocations of delete_sent_logs
MaxBatch == 2          \* events returned by _convert_response_to_log_models
MaxNameLen == 3        \* length of the enumerated class names

(* ------------------------- program constants -------------------------- *)
RetentionDays == 30
ENVIRONMENT == "Local"
EVENT_LOG_COLUMNS == <<"event_type", "event_date_time", "environment", "event_context">>

None == "None"

(* --------------------------- character data --------------------------- *)
UpperChars == <<"A","B","C","D","E","F","G","H","I","J","K","L","M",
                "N","O","P","Q","R","S","T","U","V","W","X","Y","Z">>
LowerChars == <<"a","b","c","d","e","f","g","h","i","j","k","l","m",
                "n","o","p","q","r","s","t","u","v","w","x","y","z">>
DigitChars == <<"0","1","2","3","4","5","6","7","8","9">>

Range(s) == {s[i] : i \in DOMAIN s}
IsUpper(c) == c \in Range(UpperChars)
IsLower(c) == c \in Range(LowerChars)
IsDigit(c) == c \in Range(DigitChars)

\* str.lower() on one character
LowerOf(c) ==
    IF IsUpper(c)
    THEN LowerChars[CHOOSE i \in DOMAIN UpperChars : UpperChars[i] = c]
    ELSE c

\* end (exclusive) of the greedy run [a-z]+ starting at index i
RECURSIVE LowerRunEnd(_, _)
LowerRunEnd(s, i) ==
    IF i <= Len(s) /\ IsLower(s[i]) THEN LowerRunEnd(s, i + 1) ELSE i

\* re.sub("(.)([A-Z][a-z]+)", r"\1_\2", s), scanning from index i
RECURSIVE SubFirst(_, _)
SubFirst(s, i) ==
    IF i > Len(s) THEN <<>>
    ELSE IF i + 2 <= Len(s) /\ IsUpper(s[i + 1]) /\ IsLower(s[i + 2])
         THEN LET j == LowerRunEnd(s, i + 2)
              IN  <<s[i], "_">> \o SubSeq(s, i + 1, j - 1) \o SubFirst(s, j)
         ELSE <<s[i]>> \o SubFirst(s, i + 1)

\* re.sub("([a-z0-9])([A-Z])", r"\1_\2", s), scanning from index i
RECURSIVE SubSecond(_, _)
SubSecond(s, i) ==
    IF i > Len(s) THEN <<>>
    ELSE IF i + 1 <= Len(s) /\ (IsLower(s[i]) \/ IsDigit(s[i])) /\ IsUpper(s[i + 1])
         THEN <<s[i], "_", s[i + 1]>> \o SubSecond(s, i + 2)
         ELSE <<s[i]>> \o SubSecond(s, i + 1)

_to_snake_case_first_pass_only(event_name) ==
    LET result == SubFirst(event_name, 1)
    IN  [i \in DOMAIN result |-> LowerOf(result[i])]

_to_snake_case(event_name) ==
    LET result == SubFirst(event_name, 1)
        second == SubSecond(result, 1)
    IN  [i \in DOMAIN second |-> LowerOf(second[i])]

(* ------------------------------ events -------------------------------- *)
UserCreated == <<"U","s","e","r","C","r","e","a","t","e","d">>
HTTPRequestLog == <<"H","T","T","P","R","e","q","u","e","s","t","L","o","g">>
TestModel == <<"T","e","s","t","M","o","d","e","l">>

RECURSIVE SeqsUpTo(_, _)
SeqsUpTo(S, n) ==
    IF n = 0 THEN {<<>>}
    ELSE LET shorter == SeqsUpTo(S, n - 1)
         IN  shorter \cup {Append(q, x) : q \in {t \in shorter : Len(t) = n - 1}, x \in S}

\* The shape of a batch of events: its length and, per event, whether
\* every field of the event is JSON-encodable.
Shapes == SeqsUpTo(BOOLEAN, MaxBatch) \ {<<>>}

\* Class names handed to _to_snake_case: the names of the repository and
\* of its tests, and every short name over a small identifier alphabet.
NameChars == {"A", "B", "a", "1", "_"}
Names == (SeqsUpTo(NameChars, MaxNameLen) \ {<<>>})
             \cup {UserCreated, HTTPRequestLog, TestModel}

\* UseCase._convert_response_to_log_models (abstract; CreateUser returns
\* [UserCreated(email=...)]): the events are built from the fields of
\* response.result, so the k-th event of a call carries (result, k).
_convert_response_to_log_models(response_result, shape) ==
    [k \in DOMAIN shape |->
        [cls |-> UserCreated, email |-> response_result, k |-> k, encodable |-> shape[k]]]

model_dump_json(event) == <<"json", event.email, event.k>>

\* _convert_data with the failing events skipped instead of the whole
\* conversion failing.
_convert_data_skipping(data, clock) ==
    LET good == SelectSeq(data, LAMBDA e : e.encodable)
    IN  [raised |-> None,
         value |-> [i \in DOMAIN good |->
                     <<_to_snake_case(good[i].cls), clock, ENVIRONMENT,
                       model_dump_json(good[i])>>]]

\* EventLogClientProtocol._convert_data: one tuple per event, in order;
\* model_dump_json raises when a field is not JSON-encodable, and then the
\* comprehension yields no list at all.
_convert_data(data, clock) ==
    IF \E i \in DOMAIN data : ~data[i].encodable
    THEN [raised |-> "SerializationError", value |-> <<>>]
    ELSE [raised |-> None,
          value |-> [i \in DOMAIN data |->
                      <<_to_snake_case(data[i].cls), clock, ENVIRONMENT,
                        model_dump_json(data[i])>>]]

(* ------------------------------ state --------------------------------- *)
Emails == {"a@x", "b@x"}
Callers == {"u1"}
Workers == {"w1", "w2"}
SaverTypes == {"STUB", "CLICKHOUSE", "OUTBOX", "KAFKA"}
StoreOutcomes == {"ok", "DatabaseError", "OtherError"}

VARIABLES
    now, ticks,              \* timezone.now() in days, number of advances
    EVENT_SAVER_TYPE,        \* settings.EVENT_SAVER_TYPE
    is_save_event_logs,      \* UseCase.is_save_event_logs
    users,                   \* committed rows of the users table (emails)
    outbox, nextId,          \* committed rows of event_log_outbox, next pk
    chRows,                  \* rows of the ClickHouse event_log table
    calls,                   \* invocations of execute so far
    ucPc,                    \* position of each caller in execute
    ucResp,                  \* response of _execute
    ucEvents,                \* event_models
    ucConn,                  \* the caller's ClickHouse connection
    ucExc,                   \* exception that left execute
    ucRows,                  \* pks written to the outbox by the call
    ucLogged,                \* an error was logged and not re-raised
    ucInserts,               \* calls of es.insert made by the call
    runs,                    \* invocations of send_unsent_logs_to_clickhouse
    pc,                      \* position of each worker in the task
    logs,                    \* rows cached by the unsent_logs queryset
    conn,                    \* the worker's ClickHouse connection
    exc,                     \* exception that left the task
    result,                  \* status returned by the task
    writeOutcome,            \* what the store answered to insert_raw
    confirmedIds,            \* pks of the batches whose write the store confirmed
    retRuns, retResult,      \* invocations and status of delete_sent_logs
    class_name, event_type   \* event.__class__.__name__ and the event_type derived from it

ucVars == <<calls, ucPc, ucResp, ucEvents, ucConn, ucExc, ucRows, ucLogged, ucInserts>>
runVars == <<runs, pc, logs, conn, exc, result, writeOutcome, confirmedIds>>
retVars == <<retRuns, retResult>>
cfgVars == <<EVENT_SAVER_TYPE, is_save_event_logs>>
snakeVars == <<class_name, event_type>>
vars == <<now, ticks, cfgVars, users, outbox, nextId, chRows, ucVars, runVars, retVars,
          snakeVars>>

NoResponse == [result |-> None, error |-> ""]
NoStatus == [status |-> None, n |-> 0]

\* The tables are empty and nobody is inside execute or a task.
InitTables ==
    /\ now = 0 /\ ticks = 0
    /\ users = {}
    /\ outbox = {} /\ nextId = 1
    /\ chRows = <<>>
    /\ calls = 0
    /\ ucPc = [u \in Callers |-> "idle"]
    /\ ucResp = [u \in Callers |-> NoResponse]
    /\ ucEvents = [u \in Callers |-> <<>>]
    /\ ucConn = [u \in Callers |-> "none"]
    /\ ucExc = [u \in Callers |-> None]
    /\ ucRows = [u \in Callers |-> {}]
    /\ ucLogged = [u \in Callers |-> FALSE]
    /\ ucInserts = [u \in Callers |-> 0]
    /\ runs = 0
    /\ pc = [w \in Workers |-> "idle"]
    /\ logs = [w \in Workers |-> <<>>]
    /\ conn = [w \in Workers |-> "none"]
    /\ exc = [w \in Workers |-> None]
    /\ result = [w \in Workers |-> NoStatus]
    /\ writeOutcome = [w \in Workers |-> None]
    /\ confirmedIds = {}
    /\ retRuns = 0 /\ retResult = NoStatus

Init ==
    /\ EVENT_SAVER_TYPE \in SaverTypes
    /\ is_save_event_logs \in BOOLEAN
    /\ InitTables
    /\ class_name = <<>> /\ event_type = <<>>

(* ------------------------------ clock --------------------------------- *)
TickSteps == {RetentionDays, RetentionDays + 1}

Tick(d) ==
    /\ ticks < MaxTicks
    /\ now' = now + d
    /\ ticks' = ticks + 1
    /\ UNCHANGED <<snakeVars, cfgVars, users, outbox, nextId, chRows, ucVars, runVars,
                   retVars>>

(* --------------------------- backend selection ------------------------ *)
\* get_event_saver: the client class whose init is returned, or the
\* exception raised.
get_event_saver_outbox_for_stub(event_saver_type) ==
    CASE event_saver_type = "STUB" -> "OutboxEventLogClient"
      [] event_saver_type = "CLICKHOUSE" -> "ClickhouseEventLogClient"
      [] event_saver_type = "OUTBOX" -> "OutboxEventLogClient"
      [] OTHER -> "ValueError"

get_event_saver(event_saver_type) ==
    CASE event_saver_type = "STUB" -> "StubEventLogClient"
      [] event_saver_type = "CLICKHOUSE" -> "ClickhouseEventLogClient"
      [] event_saver_type = "OUTBOX" -> "OutboxEventLogClient"
      [] OTHER -> "ValueError"

(* ------------------------------ outbox -------------------------------- *)
Unsent(rows) == {r \in rows : ~r.is_sent}
Ids(rows) == {r.id : r \in rows}

\* OutboxEventLogClient._save_to_outbox: one EventLogOutbox per converted
\* tuple, in order, is_sent = False; bulk_create assigns consecutive pks.
_save_to_outbox(converted_data, firstId) ==
    {[id |-> firstId + i - 1,
      event_type |-> converted_data[i][1],
      event_date_time |-> converted_data[i][2],
      environment |-> converted_data[i][3],
      event_context |-> converted_data[i][4],
      is_sent |-> FALSE] : i \in DOMAIN converted_data}

(* --------------------------- UseCase.execute -------------------------- *)
UcFinished == {"returned", "raised", "crashed"}

\* CreateUser._execute: User.objects.get_or_create(email=...)
_execute(email, table) ==
    IF email \notin table
    THEN [table |-> table \cup {email}, response |-> [result |-> email, error |-> ""]]
    ELSE [table |-> table,
          response |-> [result |-> None, error |-> "User with this email already exists"]]

\* execute, line 45-46: the business operation runs and commits; the
\* event-log branch is entered only for a result and is_save_event_logs.
UcExecute(u, email) ==
    /\ ucPc[u] \in UcFinished \cup {"idle"}
    /\ calls < MaxCalls
    /\ calls' = calls + 1
    /\ LET e == _execute(email, users)
       IN  /\ users' = e.table
           /\ ucResp' = [ucResp EXCEPT ![u] = e.response]
           /\ ucPc' = [ucPc EXCEPT ![u] =
                          IF is_save_event_logs /\ e.response.result # None
                          THEN "executed" ELSE "returned"]
    /\ ucEvents' = [ucEvents EXCEPT ![u] = <<>>]
    /\ ucConn' = [ucConn EXCEPT ![u] = "none"]
    /\ ucExc' = [ucExc EXCEPT ![u] = None]
    /\ ucRows' = [ucRows EXCEPT ![u] = {}]
    /\ ucLogged' = [ucLogged EXCEPT ![u] = FALSE]
    /\ ucInserts' = [ucInserts EXCEPT ![u] = 0]
    /\ UNCHANGED <<snakeVars, now, ticks, cfgVars, outbox, nextId, chRows, runVars, retVars>>

\* execute, line 47-48 with a name get_event_saver does not know: the
\* events are built, then the selection raises ValueError.
UnknownSaver(u, shape) ==
    /\ ucPc[u] = "executed"
    /\ get_event_saver(EVENT_SAVER_TYPE) = "ValueError"
    /\ ucEvents' = [ucEvents EXCEPT ![u] =
                       _convert_response_to_log_models(ucResp[u].result, shape)]
    /\ ucPc' = [ucPc EXCEPT ![u] = "raised"]
    /\ ucExc' = [ucExc EXCEPT ![u] = "ValueError"]
    /\ UNCHANGED <<snakeVars, now, ticks, cfgVars, users, outbox, nextId, chRows,
                   calls, ucResp, ucConn, ucRows, ucLogged, ucInserts, runVars, retVars>>

\* execute, line 47-50 with STUB: StubEventLogClient.insert inside
\* StubEventLogClient.init.
StubInsert(u, shape) ==
    /\ ucPc[u] = "executed"
    /\ get_event_saver(EVENT_SAVER_TYPE) = "StubEventLogClient"
    /\ ucEvents' = [ucEvents EXCEPT ![u] =
                       _convert_response_to_log_models(ucResp[u].result, shape)]
    /\ ucInserts' = [ucInserts EXCEPT ![u] = 1]
    /\ ucPc' = [ucPc EXCEPT ![u] = "returned"]
    /\ UNCHANGED <<snakeVars, now, ticks, cfgVars, users, outbox, nextId, chRows,
                   calls, ucResp, ucConn, ucExc, ucRows, ucLogged, runVars, retVars>>

\* execute, line 47-50 with OUTBOX: OutboxEventLogClient.insert inside
\* EventLogClientProtocol.init. The whole batch is converted first, then
\* bulk_create writes it; an exception of _convert_data leaves the scope
\* and execute.
OutboxInsert(u, shape) ==
    /\ ucPc[u] = "executed"
    /\ get_event_saver(EVENT_SAVER_TYPE) = "OutboxEventLogClient"
    /\ LET event_models == _convert_response_to_log_models(ucResp[u].result, shape)
           converted == _convert_data(event_models, now)
       IN  /\ ucEvents' = [ucEvents EXCEPT ![u] = event_models]
           /\ ucInserts' = [ucInserts EXCEPT ![u] = 1]
           /\ IF converted.raised # None
              THEN /\ ucPc' = [ucPc EXCEPT ![u] = "raised"]
                   /\ ucExc' = [ucExc EXCEPT ![u] = converted.raised]
                   /\ UNCHANGED <<outbox, nextId, ucRows>>
              ELSE LET rows == _save_to_outbox(converted.value, nextId)
                   IN  /\ outbox' = outbox \cup rows
                       /\ nextId' = nextId + Len(converted.value)
                       /\ ucRows' = [ucRows EXCEPT ![u] = Ids(rows)]
                       /\ ucPc' = [ucPc EXCEPT ![u] = "returned"]
                       /\ UNCHANGED ucExc
    /\ UNCHANGED <<snakeVars, now, ticks, cfgVars, users, chRows,
                   calls, ucResp, ucConn, ucLogged, runVars, retVars>>

\* execute, line 47-48 with CLICKHOUSE: ClickhouseEventLogClient.init calls
\* get_client before its try block, so a connection failure leaves init
\* and execute as an exception.
ClickhouseInit(u, shape, connected) ==
    /\ ucPc[u] = "executed"
    /\ get_event_saver(EVENT_SAVER_TYPE) = "ClickhouseEventLogClient"
    /\ ucEvents' = [ucEvents EXCEPT ![u] =
                       _convert_response_to_log_models(ucResp[u].result, shape)]
    /\ IF connected
       THEN /\ ucPc' = [ucPc EXCEPT ![u] = "acquired"]
            /\ ucConn' = [ucConn EXCEPT ![u] = "open"]
            /\ UNCHANGED ucExc
       ELSE /\ ucPc' = [ucPc EXCEPT ![u] = "raised"]
            /\ ucExc' = [ucExc EXCEPT ![u] = "OperationalError"]
            /\ UNCHANGED ucConn
    /\ UNCHANGED <<snakeVars, now, ticks, cfgVars, users, outbox, nextId, chRows,
                   calls, ucResp, ucRows, ucLogged, ucInserts, runVars, retVars>>

\* execute, line 49-50 with CLICKHOUSE: ClickhouseEventLogClient.insert and
\* the exit of init. A DatabaseError of the store is logged by insert; any
\* other exception of the body (the store's, or _convert_data's) is logged
\* by init; the connection is closed in the finally block.
ClickhouseInsert(u, outcome) ==
    /\ ucPc[u] = "acquired"
    /\ LET converted == _convert_data(ucEvents[u], now)
       IN  IF converted.raised # None
           THEN /\ ucLogged' = [ucLogged EXCEPT ![u] = TRUE]
                /\ UNCHANGED chRows
           ELSE IF outcome = "ok"
           THEN /\ chRows' = chRows \o converted.value
                /\ UNCHANGED ucLogged
           ELSE /\ ucLogged' = [ucLogged EXCEPT ![u] = TRUE]
                /\ UNCHANGED chRows
    /\ ucInserts' = [ucInserts EXCEPT ![u] = 1]
    /\ ucConn' = [ucConn EXCEPT ![u] = "closed"]
    /\ ucPc' = [ucPc EXCEPT ![u] = "returned"]
    /\ UNCHANGED <<snakeVars, now, ticks, cfgVars, users, outbox, nextId,
                   calls, ucResp, ucEvents, ucExc, ucRows, runVars, retVars>>

\* The process stops between _execute and the end of the event-log scope.
UcCrash(u) ==
    /\ ucPc[u] \in {"executed", "acquired"}
    /\ ucPc' = [ucPc EXCEPT ![u] = "crashed"]
    /\ UNCHANGED <<snakeVars, now, ticks, cfgVars, users, outbox, nextId, chRows,
                   calls, ucResp, ucEvents, ucConn, ucExc, ucRows, ucLogged,
                   ucInserts, runVars, retVars>>

(* ----------------- send_unsent_logs_to_clickhouse --------------------- *)
RunFinished == {"done", "raised"}
Success == "Successfully sent logs to Clickhouse."

RECURSIVE SortById(_)
SortById(rows) ==
    IF rows = {} THEN <<>>
    ELSE LET first == CHOOSE r \in rows : \A q \in rows : r.id <= q.id
         IN  <<first>> \o SortById(rows \ {first})

\* (getattr(log, col_name) for col_name in EVENT_LOG_COLUMNS), consumed
RowTuple(log) ==
    [i \in DOMAIN EVENT_LOG_COLUMNS |-> log[EVENT_LOG_COLUMNS[i]]]

\* tasks.py 18-20: one generator per row of unsent_logs. A generator reads
\* the comprehension variable `log` when it is consumed, which is inside
\* insert_raw, after the comprehension has finished and left `log` bound
\* to the last row.
logs_to_send(unsent_logs) ==
    [i \in DOMAIN unsent_logs |-> RowTuple(unsent_logs[Len(unsent_logs)])]

\* update() that marks only one of the unsent rows.
UpdateIsSent_one(rows) ==
    IF Unsent(rows) = {} THEN rows
    ELSE LET r == CHOOSE q \in Unsent(rows) : \A t \in Unsent(rows) : q.id <= t.id
         IN  (rows \ {r}) \cup {[r EXCEPT !.is_sent = TRUE]}

\* QuerySet.update(is_sent=True) on filter(is_sent=False): the UPDATE
\* statement evaluates the filter again, on the rows of that moment.
UpdateIsSent(rows) ==
    {IF r.is_sent THEN r ELSE [r EXCEPT !.is_sent = TRUE] : r \in rows}

\* line 12-15: unsent_logs.exists()
RunExists(w) ==
    /\ pc[w] \in RunFinished \cup {"idle"}
    /\ runs < MaxRuns
    /\ runs' = runs + 1
    /\ IF Unsent(outbox) = {}
       THEN /\ pc' = [pc EXCEPT ![w] = "done"]
            /\ result' = [result EXCEPT ![w] =
                             [status |-> "No unsent logs to process.", n |-> 0]]
       ELSE /\ pc' = [pc EXCEPT ![w] = "connect"]
            /\ result' = [result EXCEPT ![w] = NoStatus]
    /\ logs' = [logs EXCEPT ![w] = <<>>]
    /\ conn' = [conn EXCEPT ![w] = "none"]
    /\ exc' = [exc EXCEPT ![w] = None]
    /\ writeOutcome' = [writeOutcome EXCEPT ![w] = None]
    /\ UNCHANGED <<snakeVars, now, ticks, cfgVars, users, outbox, nextId, chRows, ucVars,
                   confirmedIds, retVars>>

\* line 17-20: ClickhouseEventLogClient.init calls get_client before its
\* try block, so a connection failure leaves the task as an exception;
\* otherwise the comprehension iterates unsent_logs, which runs the
\* SELECT ... WHERE is_sent = false and caches its rows.
RunRead(w, connected) ==
    /\ pc[w] = "connect"
    /\ IF connected
       THEN /\ pc' = [pc EXCEPT ![w] = "insert"]
            /\ conn' = [conn EXCEPT ![w] = "open"]
            /\ logs' = [logs EXCEPT ![w] = SortById(Unsent(outbox))]
            /\ UNCHANGED exc
       ELSE /\ pc' = [pc EXCEPT ![w] = "raised"]
            /\ exc' = [exc EXCEPT ![w] = "OperationalError"]
            /\ UNCHANGED <<conn, logs>>
    /\ UNCHANGED <<snakeVars, now, ticks, cfgVars, users, outbox, nextId, chRows, ucVars,
                   runs, result, writeOutcome, confirmedIds, retVars>>

\* init without the finally block: the connection is closed only after a
\* body that did not fail.
RunInsertRaw_close_on_success(w, outcome) ==
    /\ pc[w] = "insert"
    /\ writeOutcome' = [writeOutcome EXCEPT ![w] = outcome]
    /\ IF outcome = "ok"
       THEN /\ chRows' = chRows \o logs_to_send(logs[w])
            /\ confirmedIds' = confirmedIds \cup Ids(Range(logs[w]))
            /\ conn' = [conn EXCEPT ![w] = "closed"]
       ELSE UNCHANGED <<chRows, confirmedIds, conn>>
    /\ pc' = [pc EXCEPT ![w] = "update"]
    /\ UNCHANGED <<snakeVars, now, ticks, cfgVars, users, outbox, nextId, ucVars,
                   runs, logs, exc, result, retVars>>

\* line 21 and the exit of the with block: insert_raw logs a DatabaseError,
\* init logs any other exception, the connection is closed; in every case
\* control continues after the with block.
RunInsertRaw(w, outcome) ==
    /\ pc[w] = "insert"
    /\ writeOutcome' = [writeOutcome EXCEPT ![w] = outcome]
    /\ IF outcome = "ok"
       THEN /\ chRows' = chRows \o logs_to_send(logs[w])
            /\ confirmedIds' = confirmedIds \cup Ids(Range(logs[w]))
       ELSE UNCHANGED <<chRows, confirmedIds>>
    /\ conn' = [conn EXCEPT ![w] = "closed"]
    /\ pc' = [pc EXCEPT ![w] = "update"]
    /\ UNCHANGED <<snakeVars, now, ticks, cfgVars, users, outbox, nextId, ucVars,
                   runs, logs, exc, result, retVars>>

\* line 23-25: unsent_logs.update(is_sent=True), then the status string
\* with len(logs_to_send).
RunUpdate(w) ==
    /\ pc[w] = "update"
    /\ outbox' = UpdateIsSent(outbox)
    /\ result' = [result EXCEPT ![w] =
                     [status |-> Success, n |-> Len(logs_to_send(logs[w]))]]
    /\ pc' = [pc EXCEPT ![w] = "done"]
    /\ UNCHANGED <<snakeVars, now, ticks, cfgVars, users, nextId, chRows, ucVars,
                   runs, logs, conn, exc, writeOutcome, confirmedIds, retVars>>

(* --------------------------- delete_sent_logs ------------------------- *)
\* the filter with event_date_time__lte in place of event_date_time__lt
sent_logs_lte(rows, clock) ==
    {r \in rows : r.is_sent /\ r.event_date_time <= clock - RetentionDays}

\* filter(is_sent=True, event_date_time__lt=retention_period)
sent_logs(rows, clock) ==
    {r \in rows : r.is_sent /\ r.event_date_time < clock - RetentionDays}

\* a retention job that puts the old sent rows back in the queue instead
\* of deleting them
DeleteSentLogs_requeue ==
    /\ retRuns < MaxRetention
    /\ retRuns' = retRuns + 1
    /\ outbox' = (outbox \ sent_logs(outbox, now))
                     \cup {[r EXCEPT !.is_sent = FALSE] : r \in sent_logs(outbox, now)}
    /\ retResult' = [status |-> "Deleted sent logs.",
                     n |-> Cardinality(sent_logs(outbox, now))]
    /\ UNCHANGED <<snakeVars, now, ticks, cfgVars, users, nextId, chRows, ucVars, runVars>>

DeleteSentLogs ==
    /\ retRuns < MaxRetention
    /\ retRuns' = retRuns + 1
    /\ outbox' = outbox \ sent_logs(outbox, now)
    /\ retResult' = [status |-> "Deleted sent logs.",
                     n |-> Cardinality(sent_logs(outbox, now))]
    /\ UNCHANGED <<snakeVars, now, ticks, cfgVars, users, nextId, chRows, ucVars, runVars>>

(* --------------------------- specification ---------------------------- *)
Next ==
    \/ \E d \in TickSteps : Tick(d)
    \/ \E u \in Callers, email \in Emails : UcExecute(u, email)
    \/ \E u \in Callers, shape \in Shapes : UnknownSaver(u, shape)
    \/ \E u \in Callers, shape \in Shapes : StubInsert(u, shape)
    \/ \E u \in Callers, shape \in Shapes : OutboxInsert(u, shape)
    \/ \E u \in Callers, shape \in Shapes, connected \in BOOLEAN :
          ClickhouseInit(u, shape, connected)
    \/ \E u \in Callers, outcome \in StoreOutcomes : ClickhouseInsert(u, outcome)
    \/ \E u \in Callers : UcCrash(u)
    \/ \E w \in Workers : RunExists(w)
    \/ \E w \in Workers, connected \in BOOLEAN : RunRead(w, connected)
    \/ \E w \in Workers, outcome \in StoreOutcomes : RunInsertRaw(w, outcome)
    \/ \E w \in Workers : RunUpdate(w)
    \/ DeleteSentLogs

Spec == Init /\ [][Next]_vars

(* Non-overlapping executions: execute calls, task runs, clock advances   *)
(* and retention runs follow one another; an invocation takes a step only  *)
(* while no other invocation is in progress.                               *)
UcBusy(u) == ucPc[u] \in {"executed", "acquired"}
RunBusy(w) == pc[w] \in {"connect", "insert", "update"}
Quiet == (\A u \in Callers : ~UcBusy(u)) /\ (\A w \in Workers : ~RunBusy(w))
UcAlone(u) == (\A v \in Callers \ {u} : ~UcBusy(v)) /\ (\A w \in Workers : ~RunBusy(w))
RunAlone(w) == (\A u \in Callers : ~UcBusy(u)) /\ (\A v \in Workers \ {w} : ~RunBusy(v))

NextSeq ==
    \/ \E d \in TickSteps : Quiet /\ Tick(d)
    \/ \E u \in Callers, email \in Emails : UcAlone(u) /\ UcExecute(u, email)
    \/ \E u \in Callers, shape \in Shapes : UcAlone(u) /\ UnknownSaver(u, shape)
    \/ \E u \in Callers, shape \in Shapes : UcAlone(u) /\ StubInsert(u, shape)
    \/ \E u \in Callers, shape \in Shapes : UcAlone(u) /\ OutboxInsert(u, shape)
    \/ \E u \in Callers, shape \in Shapes, connected \in BOOLEAN :
          UcAlone(u) /\ ClickhouseInit(u, shape, connected)
    \/ \E u \in Callers, outcome \in StoreOutcomes :
          UcAlone(u) /\ ClickhouseInsert(u, outcome)
    \/ \E u \in Callers : UcAlone(u) /\ UcCrash(u)
    \/ \E w \in Workers : RunAlone(w) /\ RunExists(w)
    \/ \E w \in Workers, connected \in BOOLEAN : RunAlone(w) /\ RunRead(w, connected)
    \/ \E w \in Workers, outcome \in StoreOutcomes : RunAlone(w) /\ RunInsertRaw(w, outcome)
    \/ \E w \in Workers : RunAlone(w) /\ RunUpdate(w)
    \/ Quiet /\ DeleteSentLogs

SpecSeq == Init /\ [][NextSeq]_vars

(* ------------------ _to_snake_case on its own ------------------------- *)
\* _convert_data, line 32: the event_type of an event is
\* _to_snake_case(event.__class__.__name__).
InitSnake ==
    /\ EVENT_SAVER_TYPE = "OUTBOX"
    /\ is_save_event_logs = TRUE
    /\ InitTables
    /\ class_name \in Names
    /\ event_type = <<>>

ToSnakeCase ==
    /\ class_name # <<>>
    /\ event_type = <<>>
    /\ event_type' = _to_snake_case(class_name)
    /\ UNCHANGED <<class_name, now, ticks, cfgVars, users, outbox, nextId, chRows, ucVars,
                   runVars, retVars>>

NextSnake == ToSnakeCase

SpecSnake == InitSnake /\ [][NextSnake]_vars

(* ------------------------------ claims -------------------------------- *)
SentIds(rows) == {r.id : r \in {q \in rows : q.is_sent}}
HasBadPayload(batch) == \E i \in DOMAIN batch : ~batch[i].encodable

\* C1: every outbox row with is_sent = true was part of a batch write that
\* the analytics store confirmed.
C1_SentOnlyAfterConfirmedWrite ==
    \A r \in outbox : r.is_sent => r.id \in confirmedIds

\* C2: when the batch write of a run fails, the run ends with every row of
\* its batch still unsent and with a status that is not the success status.
C2_FailedWriteMarksNothing ==
    [][\A w \in Workers :
          (pc[w] = "update" /\ pc'[w] \in RunFinished /\ writeOutcome[w] # "ok")
          => /\ \A r \in outbox' : r.id \in Ids(Range(logs[w])) => ~r.is_sent
             /\ pc'[w] = "done"
             /\ result'[w].status # Success]_vars

\* C3: with the OUTBOX backend, the business write of an execute call is
\* committed if and only if the outbox rows of its events are committed.
C3_BusinessAndOutboxCommitTogether ==
    (EVENT_SAVER_TYPE = "OUTBOX" /\ is_save_event_logs)
    => \A u \in Callers :
          (ucResp[u].result # None /\ ucResp[u].result \in users) <=> (ucRows[u] # {})

\* C4: a row claimed by one run, from its read until its end, is not read
\* by another run, and two runs whose writes were confirmed did not both
\* write the same row.
ClaimOpen(w) == pc[w] \in {"insert", "update"}
C4_AtMostOneClaimantPerRow ==
    \A w1, w2 \in Workers :
        w1 # w2 =>
           /\ (ClaimOpen(w1) /\ ClaimOpen(w2))
                 => Ids(Range(logs[w1])) \cap Ids(Range(logs[w2])) = {}
           /\ (writeOutcome[w1] = "ok" /\ writeOutcome[w2] = "ok")
                 => Ids(Range(logs[w1])) \cap Ids(Range(logs[w2])) = {}

\* C5: a run that finds N >= 1 unsent rows (appended through the outbox
\* backend), is not overlapped by anything else and whose write the store
\* accepts, ends with exactly those N rows turned to sent, no unsent row
\* left, and the success status reporting N.
C5_RoundTrip ==
    [][\A w \in Workers :
          (pc[w] = "update" /\ pc'[w] \in RunFinished /\ writeOutcome[w] = "ok")
          => LET N == Cardinality(Unsent(outbox))
             IN  /\ N >= 1
                 /\ Unsent(outbox') = {}
                 /\ SentIds(outbox') = SentIds(outbox) \cup Ids(Unsent(outbox))
                 /\ Cardinality(SentIds(outbox') \ SentIds(outbox)) = N
                 /\ Cardinality(outbox') = Cardinality(outbox)
                 /\ pc'[w] = "done"
                 /\ result'[w] = [status |-> Success, n |-> N]]_vars

C5_Witness ==
    \E w \in Workers :
        /\ pc[w] = "done" /\ writeOutcome[w] = "ok"
        /\ result[w] = [status |-> Success, n |-> 2]
        /\ Cardinality(SentIds(outbox)) = 2
        /\ Unsent(outbox) = {}

\* C6: with the CLICKHOUSE backend no failure of the analytics store makes
\* execute raise: a call that is over has returned the response of
\* _execute and its business write is committed.
C6_DirectWriteNeverAffectsBusiness ==
    EVENT_SAVER_TYPE = "CLICKHOUSE"
    => \A u \in Callers :
          /\ ucPc[u] # "raised"
          /\ ucExc[u] = None
          /\ (ucPc[u] = "returned" /\ ucResp[u].result # None) => ucResp[u].result \in users

\* C7: a run of send_unsent_logs_to_clickhouse never ends with an
\* exception; it ends by returning a status.
C7_RunNeverRaises ==
    \A w \in Workers :
        /\ pc[w] # "raised"
        /\ pc[w] = "done" => result[w].status # None

\* C8: a run of delete_sent_logs removes exactly the rows that are sent and
\* older than now - 30 days, leaves every other row as it was, and reports
\* the number of removed rows.
C8_RetentionDeletesExactlySentAndOld ==
    [][retRuns' # retRuns
       => /\ \A r \in outbox :
                (r \notin outbox') <=> (r.is_sent /\ now - r.event_date_time > 30)
          /\ outbox' \subseteq outbox
          /\ retResult'.n = Cardinality(outbox) - Cardinality(outbox')]_vars

C8_Witness ==
    /\ retRuns = 1
    /\ retResult.n >= 1
    /\ \E r \in outbox : r.is_sent /\ now - r.event_date_time <= 30

\* C9: when insert is called inside a converting backend's scope with an
\* event that is not JSON-encodable, the serialization error reaches the
\* caller of the scope.
C9_SerializationErrorPropagates ==
    \A u \in Callers :
        ( /\ ucPc[u] \in {"returned", "raised"}
          /\ HasBadPayload(ucEvents[u])
          /\ \/ EVENT_SAVER_TYPE = "OUTBOX"
             \/ EVENT_SAVER_TYPE = "CLICKHOUSE" /\ ucConn[u] = "closed" )
        => (ucPc[u] = "raised" /\ ucExc[u] = "SerializationError")

\* C10: OutboxEventLogClient.insert either writes one unsent row per event
\* of the batch, in input order and with the same environment, and changes
\* nothing else, or (when an event does not serialize) writes no row.
C10_OutboxInsertAllOrNothing ==
    [][\A u \in Callers :
          (ucPc[u] = "executed" /\ EVENT_SAVER_TYPE = "OUTBOX"
             /\ ucPc'[u] \in {"returned", "raised"})
          => LET batch == ucEvents'[u]
                 N == Len(batch)
                 new == outbox' \ outbox
             IN  /\ chRows' = chRows
                 /\ outbox \subseteq outbox'
                 /\ N >= 1
                 /\ IF HasBadPayload(batch)
                    THEN new = {} /\ ucPc'[u] = "raised"
                    ELSE /\ ucPc'[u] = "returned"
                         /\ Cardinality(new) = N
                         /\ \A i \in 1..N :
                               \E r \in new :
                                  /\ r.id = nextId + i - 1
                                  /\ r.event_context = <<"json", batch[i].email, batch[i].k>>
                                  /\ r.event_date_time = now
                                  /\ r.environment = "Local"
                                  /\ r.is_sent = FALSE]_vars

C10_Witness ==
    \E u \in Callers :
        /\ EVENT_SAVER_TYPE = "OUTBOX"
        /\ ucPc[u] = "returned"
        /\ Len(ucEvents[u]) = 2
        /\ Cardinality(ucRows[u]) = 2
        /\ \E r1, r2 \in outbox :
              /\ r1.id + 1 = r2.id /\ {r1.id, r2.id} = ucRows[u]
              /\ r1.event_context # r2.event_context
              /\ ~r1.is_sent /\ ~r2.is_sent


\* C11: with the STUB backend, the step of execute that acquires the backend
\* and calls insert, whatever the events are (encodable or not), leaves the
\* outbox and the ClickHouse table as they were, opens no connection, raises
\* nothing and lets execute return.
C11_StubInsertChangesNothing ==
    [][\A u \in Callers :
          (/\ EVENT_SAVER_TYPE = "STUB" /\ ucPc[u] = "executed"
           /\ ucPc'[u] \notin {"executed", "crashed"})
              => /\ outbox' = outbox
                 /\ nextId' = nextId
                 /\ chRows' = chRows
                 /\ ucConn[u] = "none" /\ ucConn'[u] = "none"
                 /\ ucExc'[u] = None
                 /\ ucLogged'[u] = FALSE
                 /\ ucRows'[u] = {}
                 /\ ucPc'[u] = "returned"]_vars

\* A STUB insert of a batch holding an event that cannot be serialized has
\* returned.
C11_Witness ==
    \E u \in Callers :
        /\ EVENT_SAVER_TYPE = "STUB"
        /\ ucPc[u] = "returned"
        /\ ucInserts[u] = 1
        /\ HasBadPayload(ucEvents[u])

\* C12: an unknown backend name fails before anything else happens: whenever
\* execute is left by the ValueError of get_event_saver, the business
\* operation of that call has not run and no event has been converted.
C12_UnknownSaverFailsBeforeBusiness ==
    \A u \in Callers :
        ucExc[u] = "ValueError" => /\ ucResp[u] = NoResponse
                                   /\ ucEvents[u] = <<>>

\* C13: every call of execute that has ended returned the response of
\* _execute; when that response has a result and is_save_event_logs is true
\* the backend's insert was called exactly once with the events converted
\* from the result, otherwise no backend was acquired and insert was not
\* called.
C13_InsertOnceOrNever ==
    \A u \in Callers :
        ucPc[u] \in {"returned", "raised"} =>
            /\ ucPc[u] = "returned"
            /\ ucExc[u] = None
            /\ IF is_save_event_logs /\ ucResp[u].result # None
               THEN /\ ucInserts[u] = 1
                    /\ ucEvents[u] # <<>>
                    /\ \A i \in DOMAIN ucEvents[u] :
                           ucEvents[u][i].email = ucResp[u].result
               ELSE /\ ucInserts[u] = 0
                    /\ ucEvents[u] = <<>>
                    /\ ucConn[u] = "none"

\* The rule of C14: an underscore goes in front of an uppercase letter that
\* is not the first character when the character before it is a lowercase
\* letter or a digit, or when a lowercase letter follows it (it is then the
\* last letter of its uppercase run).
UnderscoreBefore(s, j) ==
    /\ j > 1
    /\ IsUpper(s[j])
    /\ \/ IsLower(s[j - 1])
       \/ IsDigit(s[j - 1])
       \/ j < Len(s) /\ IsLower(s[j + 1])

RECURSIVE SnakeByRule(_, _)
SnakeByRule(s, j) ==
    IF j > Len(s) THEN <<>>
    ELSE (IF UnderscoreBefore(s, j) THEN <<"_">> ELSE <<>>)
             \o <<LowerOf(s[j])>> \o SnakeByRule(s, j + 1)

user_created == <<"u","s","e","r","_","c","r","e","a","t","e","d">>
http_request_log == <<"h","t","t","p","_","r","e","q","u","e","s","t",
                      "_","l","o","g">>
test_model == <<"t","e","s","t","_","m","o","d","e","l">>

\* C14: the event_type derived from a class name is the name with the
\* underscores of the rule inserted and every letter lowercased; UserCreated
\* gives user_created, HTTPRequestLog http_request_log, A gives a and
\* TestModel test_model.
C14_SnakeCase ==
    event_type # <<>> =>
        /\ event_type = SnakeByRule(class_name, 1)
        /\ class_name = UserCreated => event_type = user_created
        /\ class_name = HTTPRequestLog => event_type = http_request_log
        /\ class_name = <<"A">> => event_type = <<"a">>
        /\ class_name = TestModel => event_type = test_model

\* HTTPRequestLog, whose uppercase run HTTPR and lowercase-uppercase
\* boundary tL use both parts of the rule, has been converted.
C14_Witness ==
    /\ class_name = HTTPRequestLog
    /\ event_type = SnakeByRule(HTTPRequestLog, 1)
    /\ Len(event_type) = Len(HTTPRequestLog) + 2

\* C15: the mark step of a run turns to sent only rows of the batch the run
\* read and submitted; a row appended after the read stays unsent.
C15_MarksOnlyClaimedRows ==
    [][\A w \in Workers :
          (pc[w] = "update" /\ pc'[w] = "done")
              => SentIds(outbox') \ SentIds(outbox) \subseteq Ids(Range(logs[w]))]_vars

\* C16: a run that has no rows to send never contacts ClickHouse: a worker
\* whose batch is empty holds no connection, open or closed, and has
\* submitted nothing.
C16_EmptyClaimContactsNothing ==
    \A w \in Workers :
        logs[w] = <<>> => conn[w] = "none" /\ writeOutcome[w] = None

\* C17: an accepted insert_raw appends to the ClickHouse table one tuple per
\* row of the batch, in batch order, the i-th tuple holding the four
\* columns of the i-th row.
C17_BatchHoldsEachRowsOwnTuple ==
    [][\A w \in Workers :
          (pc[w] = "insert" /\ pc'[w] = "update" /\ writeOutcome'[w] = "ok")
              => chRows' = chRows \o [i \in DOMAIN logs[w] |-> RowTuple(logs[w][i])]]_vars

\* C18: a ClickHouse connection is open only inside the scope of
\* ClickhouseEventLogClient.init: once execute has returned or raised, and
\* once a task is past insert_raw, the connection it opened is closed,
\* whatever the body of the scope did.
C18_ScopeClosesConnection ==
    /\ \A u \in Callers :
          /\ ucConn[u] = "open" => ucPc[u] \in {"acquired", "crashed"}
          /\ (ucPc[u] = "returned" /\ ucInserts[u] = 1 /\ EVENT_SAVER_TYPE = "CLICKHOUSE")
                 => ucConn[u] = "closed"
    /\ \A w \in Workers :
          /\ conn[w] = "open" => pc[w] = "insert"
          /\ writeOutcome[w] # None => conn[w] = "closed"

\* A task whose insert_raw failed with an exception other than
\* DatabaseError has left the scope with a batch of two rows.
C18_Witness ==
    \E w \in Workers :
        /\ writeOutcome[w] = "OtherError"
        /\ conn[w] = "closed"
        /\ pc[w] \in {"update", "done"}
        /\ Len(logs[w]) = 2

\* C19: in every step, a row that is sent is either still there with every
\* field as it was or is gone; a row that is unsent keeps its fields and its
\* is_sent stays false or becomes true; a pk that appears is a new one and
\* its row is unsent, so no row is marked sent twice.
C19_SentIsMonotonicAndFrozen ==
    [][/\ \A r \in outbox :
             LET after == {q \in outbox' : q.id = r.id}
             IN  /\ Cardinality(after) <= 1
                 /\ r.id < nextId
                 /\ \A q \in after :
                       IF r.is_sent THEN q = r
                       ELSE q = r \/ q = [r EXCEPT !.is_sent = TRUE]
       /\ \A q \in outbox' :
             (q.id \notin Ids(outbox)) => q.id >= nextId /\ q.id < nextId' /\ ~q.is_sent]_vars

\* A row was marked sent by a first run; later another row was appended, a
\* second run started and the retention job ran, and the sent row is still
\* there.
C19_Witness ==
    /\ runs = 2
    /\ retRuns = 1
    /\ \E r, q \in outbox : r.is_sent /\ ~q.is_sent /\ r.id < q.id

Count(seq, x) == Cardinality({i \in DOMAIN seq : seq[i] = x})

\* C20: with runs that nothing overlaps, the tuple of an outbox row is never
\* in the ClickHouse table twice, and it is there exactly once when the row
\* is sent and the store accepted its batch; a run submits no row that is
\* already sent, and a run that finds no unsent row changes neither the
\* outbox nor the ClickHouse table.
C20_EachRowWrittenExactlyOnce ==
    [][/\ \A r \in outbox' :
             /\ Count(chRows', RowTuple(r)) <= 1
             /\ (r.is_sent /\ r.id \in confirmedIds')
                    => Count(chRows', RowTuple(r)) = 1
       /\ \A w \in Workers :
             /\ (pc[w] = "insert" /\ pc'[w] = "update")
                    => \A i \in DOMAIN logs[w] :
                          ~logs[w][i].is_sent /\ logs[w][i].id \notin confirmedIds
             /\ (pc[w] \notin {"connect", "done"} /\ pc'[w] = "done" /\ Unsent(outbox) = {})
                    => outbox' = outbox /\ chRows' = chRows]_vars
====
